---- MODULE Spec2Model ----
(***************************************************************************)
(* Model of pkg/consumer/consumer.go: the consumer registry of the data    *)
(* plane.  updateConsumers ingests a control-plane snapshot into the       *)
(* resourceIndex and rebuilds the scopeIndex; LookupConsumer reads the     *)
(* scopeIndex.  Consumer objects live in a heap and the indices hold their *)
(* addresses, so that "the same object" and "an equal object" differ.      *)
(***************************************************************************)
EXTENDS Integers, Sequences, FiniteSets, TLC

(***************************************************************************)
(* Bounds and input domains                                                *)
(***************************************************************************)
\* Highest serial number of an address of one (namespace, name) slot.
MaxSerial == 1

Namespaces == {"ns1", "ns2"}

\* Consumer names a snapshot may carry under each namespace.
NamesOf(ns) == IF ns = "ns1" THEN {"alice", "bob"} ELSE {"alice"}

AllNames == UNION {NamesOf(ns) : ns \in Namespaces}

Versions == {"1", "2"}

Keys == {"k1", "k2"}

Serials == 0 .. MaxSerial

EmptyMap == << >>

\* The nil *Consumer.
NilAddr == <<"", "", -1>>

(***************************************************************************)
(* The plugin registry (pkg/plugins), as consumer.go uses it               *)
(***************************************************************************)
\* Plugins that implement plugins.ConsumerPlugin.
ConsumerPlugins == {"keyAuth", "hmacAuth"}

\* Registered plugins that are not authentication-capable.
FilterOnlyPlugins == {"limitReq"}

\* Every plugin name a consumer body may mention; "ghost" is not registered.
PluginNames == ConsumerPlugins \cup FilterOnlyPlugins \cup {"ghost"}

\* plugins.LoadHttpPlugin(name).(plugins.ConsumerPlugin): the ok result.
LoadConsumerPlugin(name) == name \in ConsumerPlugins

\* plugins.LoadHttpFilterConfigFactoryAndParser(name) != nil.
LoadHttpFilterConfigFactoryAndParser(name) == name \in ConsumerPlugins \cup FilterOnlyPlugins

\* Raw auth payloads: a JSON text that is either malformed (possibly with
\* bytes that are no UTF-8) or an object with one "key" member.
AuthPayloads == [syntax : {"ok", "bad", "bad<FF>", "bad<U+FFFD>"}, key : Keys \cup {""}]

\* protojson.Unmarshal(data, conf): the error is nil exactly for well-formed JSON.
ProtoUnmarshal(data) ==
    IF data.syntax = "ok"
    THEN [err |-> FALSE, conf |-> [key |-> data.key]]
    ELSE [err |-> TRUE, conf |-> [key |-> ""]]

\* conf.Validate(): the key must not be empty.
Validate(conf) == conf.key # ""

\* cfg.Index(): the lookup key the plugin derives from its config.
Index(cfg) == cfg.key

\* p.ConfigParser.Parse(data.Config, nil)
ParseFilter(data) ==
    IF data.Config = "ok"
    THEN [err |-> FALSE, conf |-> "parsed"]
    ELSE [err |-> TRUE, conf |-> ""]

(***************************************************************************)
(* Consumer, Marshal, Unmarshal                                            *)
(***************************************************************************)
\* The zero Consumer value ("var c Consumer").
ZeroConsumer ==
    [ConsumerName |-> "", Auth |-> EmptyMap, Filters |-> EmptyMap,
     namespace |-> "", resourceVersion |-> "",
     ConsumerConfigs |-> EmptyMap, FilterConfigs |-> << >>]

\* A JSON text: either not a JSON object of the Consumer shape, or an
\* object with the members name, auth and filters.
JsonText(name, auth, filters) ==
    [json |-> "object", name |-> name, auth |-> auth, filters |-> filters]

MalformedJson == [json |-> "garbage", name |-> "", auth |-> EmptyMap, filters |-> EmptyMap]

\* Go strings that are not valid UTF-8, and what encoding/json makes of
\* them: each offending byte becomes U+FFFD.
InvalidUTF8 == {"x<FF>", "bad<FF>"}

CoerceUTF8(str) ==
    CASE str = "x<FF>"   -> "x<U+FFFD>"
      [] str = "bad<FF>" -> "bad<U+FFFD>"
      [] OTHER           -> str

\* The strings of a map[string]string with plugin names as keys, coerced.
CoerceAuth(auth) == [p \in DOMAIN auth |-> [auth[p] EXCEPT !.syntax = CoerceUTF8(@)]]

\* The JSON object of a *model.FilterConfig and the value decoded from it.
FilterConfigToJson(fc) == [config |-> fc.Config]

FilterConfigFromJson(j) == [Config |-> j.config]

\* c.Unmarshal(s) on a zero Consumer: only the json-tagged fields are set.
Unmarshal(s) ==
    IF s.json = "object"
    THEN [err |-> FALSE,
          c |-> [ZeroConsumer EXCEPT
                    !.ConsumerName = CoerceUTF8(s.name),
                    !.Auth = CoerceAuth(s.auth),
                    !.Filters = [p \in DOMAIN s.filters |-> FilterConfigFromJson(s.filters[p])]]]
    ELSE [err |-> TRUE, c |-> ZeroConsumer]

\* Marshal with Filters tagged json:"-".
Marshal_NoFilters(c) == JsonText(CoerceUTF8(c.ConsumerName), CoerceAuth(c.Auth), EmptyMap)

\* c.Marshal(): the json-tagged fields only.
Marshal(c) ==
    JsonText(CoerceUTF8(c.ConsumerName), CoerceAuth(c.Auth),
             [p \in DOMAIN c.Filters |-> FilterConfigToJson(c.Filters[p])])

(***************************************************************************)
(* InitConfigs                                                             *)
(***************************************************************************)
\* All orders in which a range over a map with key set S can run.
RECURSIVE Perms(_)
Perms(S) ==
    IF S = {} THEN {<< >>}
    ELSE UNION {{<<x>> \o p : p \in Perms(S \ {x})} : x \in S}

\* One such order.
RECURSIVE IterOrder(_)
IterOrder(S) ==
    IF S = {} THEN << >>
    ELSE LET x == CHOOSE y \in S : TRUE IN <<x>> \o IterOrder(S \ {x})

\* InitAuthLoop that leaves the loop after the first plugin it has stored.
InitAuthLoop_StopAfterFirst(Auth, order, configs) ==
    IF order = << >> THEN [err |-> "", configs |-> configs]
    ELSE IF ~LoadConsumerPlugin(Head(order))
    THEN [err |-> "not for consumer", configs |-> configs]
    ELSE IF ProtoUnmarshal(Auth[Head(order)]).err
    THEN [err |-> "failed to unmarshal consumer config", configs |-> configs]
    ELSE IF ~Validate(ProtoUnmarshal(Auth[Head(order)]).conf)
    THEN [err |-> "failed to validate consumer config", configs |-> configs]
    ELSE [err |-> "",
          configs |-> configs @@ (Head(order) :> ProtoUnmarshal(Auth[Head(order)]).conf)]

\* InitAuthLoop that skips a plugin whose config fails to validate and goes
\* on with the next one.
RECURSIVE InitAuthLoop_SkipInvalid(_, _, _)
InitAuthLoop_SkipInvalid(Auth, order, configs) ==
    IF order = << >> THEN [err |-> "", configs |-> configs]
    ELSE IF ~LoadConsumerPlugin(Head(order))
    THEN [err |-> "not for consumer", configs |-> configs]
    ELSE IF ProtoUnmarshal(Auth[Head(order)]).err
    THEN [err |-> "failed to unmarshal consumer config", configs |-> configs]
    ELSE IF ~Validate(ProtoUnmarshal(Auth[Head(order)]).conf)
    THEN InitAuthLoop_SkipInvalid(Auth, Tail(order), configs)
    ELSE InitAuthLoop_SkipInvalid(Auth, Tail(order),
             configs @@ (Head(order) :> ProtoUnmarshal(Auth[Head(order)]).conf))

\* The loop over c.Auth, taken in the given order.
RECURSIVE InitAuthLoop(_, _, _)
InitAuthLoop(Auth, order, configs) ==
    IF order = << >> THEN [err |-> "", configs |-> configs]
    ELSE LET name == Head(order)
             data == Auth[name]
             u    == ProtoUnmarshal(data)
         IN  IF ~LoadConsumerPlugin(name)
             THEN [err |-> "not for consumer", configs |-> configs]
             ELSE IF u.err
             THEN [err |-> "failed to unmarshal consumer config", configs |-> configs]
             ELSE IF ~Validate(u.conf)
             THEN [err |-> "failed to validate consumer config", configs |-> configs]
             ELSE InitAuthLoop(Auth, Tail(order), configs @@ (name :> u.conf))

\* InitFilterLoop that passes over a plugin that is not registered.
RECURSIVE InitFilterLoop_SkipUnknown(_, _, _)
InitFilterLoop_SkipUnknown(Filters, order, configs) ==
    IF order = << >> THEN [err |-> "", configs |-> configs]
    ELSE IF ~LoadHttpFilterConfigFactoryAndParser(Head(order))
    THEN InitFilterLoop_SkipUnknown(Filters, Tail(order), configs)
    ELSE IF ParseFilter(Filters[Head(order)]).err
    THEN [err |-> "during parsing plugin", configs |-> configs]
    ELSE InitFilterLoop_SkipUnknown(Filters, Tail(order),
             Append(configs, [Name |-> Head(order),
                              ParsedConfig |-> ParseFilter(Filters[Head(order)]).conf,
                              ConfigFactory |-> Head(order)]))

\* The loop over c.Filters, taken in the given order.
RECURSIVE InitFilterLoop(_, _, _)
InitFilterLoop(Filters, order, configs) ==
    IF order = << >> THEN [err |-> "", configs |-> configs]
    ELSE LET name == Head(order)
             data == Filters[name]
             r    == ParseFilter(data)
         IN  IF ~LoadHttpFilterConfigFactoryAndParser(name)
             THEN [err |-> "not found", configs |-> configs]
             ELSE IF r.err
             THEN [err |-> "during parsing plugin", configs |-> configs]
             ELSE InitFilterLoop(Filters, Tail(order),
                      Append(configs, [Name |-> name, ParsedConfig |-> r.conf,
                                       ConfigFactory |-> name]))

\* What InitConfigs leaves and returns when its loops end as a and f (the
\* second loop is not entered when the first returns an error).
InitConfigsResult(c, a, f) ==
    IF a.err # ""
    THEN [err |-> a.err, c |-> [c EXCEPT !.ConsumerConfigs = a.configs]]
    ELSE [err |-> f.err,
          c |-> [c EXCEPT !.ConsumerConfigs = a.configs, !.FilterConfigs = f.configs]]

\* c.InitConfigs() with the two map ranges running in the given orders:
\* the error ("" is nil) and the Consumer as the call leaves it.
InitConfigs(c, authOrder, filterOrder) ==
    InitConfigsResult(c, InitAuthLoop(c.Auth, authOrder, EmptyMap),
                         InitFilterLoop(c.Filters, filterOrder, << >>))

(***************************************************************************)
(* Snapshots: the structpb.Struct the control plane pushes                 *)
(***************************************************************************)
GoodPayload == [syntax |-> "ok", key |-> "k1"]

\* The JSON text of field "d" of a consumer of the given name.
Body(name, kind) ==
    CASE kind = "key"     -> JsonText(name, ("keyAuth" :> GoodPayload), EmptyMap)
      [] kind = "hmac"    -> JsonText(name, ("hmacAuth" :> GoodPayload), EmptyMap)
      [] kind = "both"    -> JsonText(name, ("keyAuth" :> GoodPayload) @@ ("hmacAuth" :> GoodPayload),
                                       ("limitReq" :> [config |-> "ok"])
                                           @@ ("keyAuth" :> [config |-> "ok"]))
      [] kind = "garbage" -> MalformedJson
      [] kind = "invalid" -> JsonText(name, ("keyAuth" :> [syntax |-> "ok", key |-> ""]), EmptyMap)
      [] kind = "partial" -> JsonText(name, ("keyAuth" :> GoodPayload)
                                           @@ ("hmacAuth" :> [syntax |-> "ok", key |-> ""]),
                                       EmptyMap)

\* The bodies the control plane may send for each consumer: its well-formed
\* definitions, a text that is no JSON, and a definition with an empty key
\* (alone, or after a plugin whose payload is valid).
BodyKinds(ns, name) ==
    CASE ns = "ns1" /\ name = "alice" -> {"key", "garbage", "invalid"}
      [] ns = "ns1" /\ name = "bob"   -> {"hmac", "both", "garbage", "partial"}
      [] OTHER                        -> {"key", "garbage"}

\* The consumers { name: {v, d} } a snapshot may carry under one namespace.
NsValues(ns) ==
    UNION {{[n \in S |-> [v |-> f[n][1], d |-> Body(n, f[n][2])]] :
               f \in {g \in [S -> Versions \X {"key", "hmac", "both", "garbage", "invalid", "partial"}] :
                         \A n \in S : g[n][2] \in BodyKinds(ns, n)}} :
           S \in SUBSET NamesOf(ns)}

\* The snapshots over the namespaces N.
RECURSIVE SnapshotsOver(_)
SnapshotsOver(N) ==
    IF N = {} THEN {EmptyMap}
    ELSE LET ns == CHOOSE n \in N : TRUE
         IN  SnapshotsOver(N \ {ns})
             \cup {(ns :> x) @@ rest : x \in NsValues(ns), rest \in SnapshotsOver(N \ {ns})}

\* The snapshots: any set of namespaces, any of their consumers.
Snapshots == SnapshotsOver(Namespaces)

\* The key a range over a map with key set S meets first.
Pick(S) == CHOOSE n \in S : TRUE

\* The (namespace, name) pairs of a two-level map.
Entries(idx) ==
    {e \in Namespaces \X AllNames : e[1] \in DOMAIN idx /\ e[2] \in DOMAIN idx[e[1]]}

\* The orders in which InitConfigs may range over c.Auth and c.Filters of
\* the Consumer that a snapshot entry deserializes to.
MapOrders(entry) ==
    {[auth |-> a, filters |-> f] :
        a \in Perms(DOMAIN Unmarshal(entry.d).c.Auth),
        f \in Perms(DOMAIN Unmarshal(entry.d).c.Filters)}

\* One choice of these orders for each of the entries E of a snapshot.
RECURSIVE ItersOver(_, _)
ItersOver(value, E) ==
    IF E = {} THEN {EmptyMap}
    ELSE {(Pick(E) :> p) @@ rest :
             p \in MapOrders(value[Pick(E)[1]][Pick(E)[2]]),
             rest \in ItersOver(value, E \ {Pick(E)})}

\* The snapshot with, at each entry, the orders the map ranges of its
\* InitConfigs call will take in this run.
Ranged(value, it) ==
    [ns \in DOMAIN value |->
        [name \in DOMAIN value[ns] |->
            [v |-> value[ns][name].v, d |-> value[ns][name].d, it |-> it[<<ns, name>>]]]]

\* The runs of updateConsumers: a snapshot and the orders of its map ranges.
Runs == UNION {{[value |-> value, it |-> it] : it \in ItersOver(value, Entries(value))} :
                   value \in Snapshots}

(***************************************************************************)
(* updateConsumers                                                         *)
(***************************************************************************)
Addrs == {<<ns, name, s>> : ns \in Namespaces, name \in AllNames, s \in Serials}

\* Some address of the slot is free in heap hp.
CanAlloc(hp, ns, name) == \E s \in Serials : <<ns, name, s>> \notin DOMAIN hp

\* "&c" of a new Consumer: an address no live object has.
Alloc(hp, ns, name) ==
    <<ns, name, CHOOSE s \in Serials :
                    /\ <<ns, name, s>> \notin DOMAIN hp
                    /\ \A t \in Serials : t < s => <<ns, name, t>> \in DOMAIN hp>>

\* NeedsParse without the version comparison: every entry is parsed afresh.
NeedsParse_Always(hp, currIdx, name, v) == TRUE

\* NeedsParse that takes the token for a counter: a stored Consumer is
\* parsed again only when the entry's token is the later one.
NeedsParse_Ordinal(hp, currIdx, name, v) ==
    name \notin DOMAIN currIdx \/ (hp[currIdx[name]].resourceVersion = "1" /\ v = "2")

\* "currValue, ok := currIdx[name]; !ok || currValue.resourceVersion != v"
NeedsParse(hp, currIdx, name, v) ==
    name \notin DOMAIN currIdx \/ hp[currIdx[name]].resourceVersion # v

\* "continue": nothing is stored for the entry; log is the error logged.
Skipped(log) ==
    [stored |-> FALSE, fresh |-> FALSE, addr |-> NilAddr, c |-> ZeroConsumer, log |-> log]

\* "newIdx[name] = &c"
StoredNew(addr, c) == [stored |-> TRUE, fresh |-> TRUE, addr |-> addr, c |-> c, log |-> ""]

\* "newIdx[name] = currValue"
StoredOld(addr, c) == [stored |-> TRUE, fresh |-> FALSE, addr |-> addr, c |-> c, log |-> ""]

\* StoreEntry without the "continue" after a failed InitConfigs.
StoreEntry_OnInitError(hp, ns, name, v, r) ==
    StoredNew(Alloc(hp, ns, name), [r.c EXCEPT !.resourceVersion = v])

\* StoreEntry without "c.resourceVersion = v".
StoreEntry_NoStamp(hp, ns, name, v, r) ==
    IF r.err # ""
    THEN Skipped("failed to init")
    ELSE StoredNew(Alloc(hp, ns, name), r.c)

\* The end of the loop body for a parsed entry, r being what InitConfigs
\* returned and left in c.
StoreEntry(hp, ns, name, v, r) ==
    IF r.err # ""
    THEN Skipped("failed to init")
    ELSE StoredNew(Alloc(hp, ns, name), [r.c EXCEPT !.resourceVersion = v])

\* "err = c.InitConfigs()" on the Consumer c, its map ranges taking the
\* orders it, and what follows it.
InitEntry(hp, ns, name, v, c, it) ==
    StoreEntry(hp, ns, name, v, InitConfigs(c, it.auth, it.filters))

\* The loop body for an entry that is parsed, u being what Unmarshal
\* returned and left in c.
ParseEntry(hp, ns, name, v, u, it) ==
    IF u.err
    THEN Skipped("failed to unmarshal")
    ELSE InitEntry(hp, ns, name, v, [u.c EXCEPT !.namespace = ns], it)

\* "err = c.InitConfigs()" returns nil on the Consumer c.
InitOk(c) ==
    InitConfigs(c, IterOrder(DOMAIN c.Auth), IterOrder(DOMAIN c.Filters)).err = ""

\* The stored Consumer of the name, if there is one, in place of a skip.
KeepOld(res, hp, currIdx, name) ==
    IF res.stored \/ name \notin DOMAIN currIdx
    THEN res
    ELSE StoredOld(currIdx[name], hp[currIdx[name]])

\* ProcessEntry that falls back to the stored Consumer when the entry fails.
ProcessEntry_KeepOld(hp, currIdx, ns, name, entry) ==
    IF NeedsParse(hp, currIdx, name, entry.v)
    THEN KeepOld(ParseEntry(hp, ns, name, entry.v, Unmarshal(entry.d), entry.it),
                 hp, currIdx, name)
    ELSE StoredOld(currIdx[name], hp[currIdx[name]])

\* The body of the inner loop for one snapshot entry: what is stored in
\* newIdx[name], if anything, and the object a new address holds.
ProcessEntry(hp, currIdx, ns, name, entry) ==
    IF NeedsParse(hp, currIdx, name, entry.v)
    THEN ParseEntry(hp, ns, name, entry.v, Unmarshal(entry.d), entry.it)
    ELSE StoredOld(currIdx[name], hp[currIdx[name]])

\* newIdx after the loop body for name has ended as r.
NewIdxWith(newIdx, name, r) ==
    IF r.stored THEN (name :> r.addr) @@ newIdx ELSE newIdx

\* The heap after the loop body for name has ended as r.
HeapWith(hp, r) ==
    IF r.stored /\ r.fresh THEN (r.addr :> r.c) @@ hp ELSE hp

\* The inner loop over the entries todo of nsValue, filling newIdx.
RECURSIVE EntryLoop(_, _, _, _, _, _, _)
RECURSIVE EntryStep(_, _, _, _, _, _, _, _, _)
EntryStep(hp0, currIdx, ns, nsValue, todo, newIdx, hp, name, r) ==
    EntryLoop(hp0, currIdx, ns, nsValue, todo \ {name},
              NewIdxWith(newIdx, name, r), HeapWith(hp, r))

EntryLoop(hp0, currIdx, ns, nsValue, todo, newIdx, hp) ==
    IF todo = {} THEN [newIdx |-> newIdx, heap |-> hp]
    ELSE EntryStep(hp0, currIdx, ns, nsValue, todo, newIdx, hp, Pick(todo),
                   ProcessEntry(hp0, currIdx, ns, Pick(todo), nsValue[Pick(todo)]))

\* "currIdx := resourceIndex[ns]": a missing key reads as the nil map.
CurrIdx(ri, ns) == IF ns \in DOMAIN ri THEN ri[ns] ELSE EmptyMap

\* UpdateNs with newIdx starting as a copy of currIdx, not as an empty map.
UpdateNs_Merge(ri, hp, ns, nsValue) ==
    EntryLoop(hp, CurrIdx(ri, ns), ns, nsValue, DOMAIN nsValue, CurrIdx(ri, ns), hp)

\* One iteration of the outer loop: the newIdx built for namespace ns and
\* the heap with the Consumers it allocated.
UpdateNs(ri, hp, ns, nsValue) ==
    EntryLoop(hp, CurrIdx(ri, ns), ns, nsValue, DOMAIN nsValue, EmptyMap, hp)

\* The first loop over the namespaces todo of the snapshot.
RECURSIVE NsLoop(_, _, _, _)
RECURSIVE NsStep(_, _, _, _, _)
NsStep(ri, value, todo, ns, r) ==
    NsLoop((ns :> r.newIdx) @@ ri, r.heap, value, todo \ {ns})

NsLoop(ri, hp, value, todo) ==
    IF todo = {} THEN [ri |-> ri, heap |-> hp]
    ELSE NsStep(ri, value, todo, Pick(todo),
                UpdateNs(ri, hp, Pick(todo), value[Pick(todo)]))

\* ResourcePhase that builds a new resourceIndex from the snapshot alone.
ResourcePhase_Prune(ri, hp, value, todo) ==
    NsLoop([ns \in DOMAIN ri \cap DOMAIN value |-> ri[ns]], hp, value, todo)

\* The whole first loop: resourceIndex, written in place, and the heap.
ResourcePhase(ri, hp, value, todo) == NsLoop(ri, hp, value, todo)

\* The inner loop with "range nsValue.GetStructValue().GetFields()" taking
\* the given order.
RECURSIVE EntryLoopIn(_, _, _, _, _, _, _)
EntryStepIn(hp0, currIdx, ns, nsValue, order, newIdx, hp, r) ==
    EntryLoopIn(hp0, currIdx, ns, nsValue, Tail(order),
                NewIdxWith(newIdx, Head(order), r), HeapWith(hp, r))

EntryLoopIn(hp0, currIdx, ns, nsValue, order, newIdx, hp) ==
    IF order = << >> THEN [newIdx |-> newIdx, heap |-> hp]
    ELSE EntryStepIn(hp0, currIdx, ns, nsValue, order, newIdx, hp,
                     ProcessEntry(hp0, currIdx, ns, Head(order), nsValue[Head(order)]))

\* The first loop with "range value.GetFields()" taking the order nsOrder
\* and the inner range of each namespace the order nameOrders gives it.
RECURSIVE NsLoopIn(_, _, _, _, _)
NsStepIn(ri, value, nsOrder, nameOrders, r) ==
    NsLoopIn((Head(nsOrder) :> r.newIdx) @@ ri, r.heap, value, Tail(nsOrder), nameOrders)

NsLoopIn(ri, hp, value, nsOrder, nameOrders) ==
    IF nsOrder = << >> THEN [ri |-> ri, heap |-> hp]
    ELSE NsStepIn(ri, value, nsOrder, nameOrders,
                  EntryLoopIn(hp, CurrIdx(ri, Head(nsOrder)), Head(nsOrder),
                              value[Head(nsOrder)], nameOrders[Head(nsOrder)],
                              EmptyMap, hp))

\* ScopeInsert without the duplicate check: the last writer wins.
ScopeInsert_LastWins(hp, nsScopeIdx, value) ==
    LET configs == hp[value].ConsumerConfigs
    IN  [pluginName \in DOMAIN nsScopeIdx \cup DOMAIN configs |->
            LET pluginScopeIdx == IF pluginName \in DOMAIN nsScopeIdx
                                  THEN nsScopeIdx[pluginName] ELSE EmptyMap
            IN  IF pluginName \notin DOMAIN configs THEN pluginScopeIdx
                ELSE (Index(configs[pluginName]) :> value) @@ pluginScopeIdx]

\* ScopeInsert whose duplicate check looks at the keys of all plugins of the
\* namespace.
ScopeInsert_SharedKeys(hp, nsScopeIdx, value) ==
    LET configs == hp[value].ConsumerConfigs
    IN  [pluginName \in DOMAIN nsScopeIdx \cup DOMAIN configs |->
            LET pluginScopeIdx == IF pluginName \in DOMAIN nsScopeIdx
                                  THEN nsScopeIdx[pluginName] ELSE EmptyMap
            IN  IF pluginName \notin DOMAIN configs THEN pluginScopeIdx
                ELSE IF \E q \in DOMAIN nsScopeIdx :
                            Index(configs[pluginName]) \in DOMAIN nsScopeIdx[q]
                     THEN pluginScopeIdx
                     ELSE (Index(configs[pluginName]) :> value) @@ pluginScopeIdx]

\* ScopeInsert that gives up on a Consumer altogether when one of its keys
\* is taken.
ScopeInsert_SkipConsumer(hp, nsScopeIdx, value) ==
    LET configs == hp[value].ConsumerConfigs
    IN  IF \E p \in DOMAIN configs \cap DOMAIN nsScopeIdx :
               Index(configs[p]) \in DOMAIN nsScopeIdx[p]
        THEN nsScopeIdx
        ELSE [pluginName \in DOMAIN nsScopeIdx \cup DOMAIN configs |->
                 IF pluginName \notin DOMAIN configs THEN nsScopeIdx[pluginName]
                 ELSE (Index(configs[pluginName]) :> value)
                          @@ (IF pluginName \in DOMAIN nsScopeIdx
                              THEN nsScopeIdx[pluginName] ELSE EmptyMap)]

\* The two inner loops of the rebuild for one Consumer of a namespace.
ScopeInsert(hp, nsScopeIdx, value) ==
    LET configs == hp[value].ConsumerConfigs
    IN  [pluginName \in DOMAIN nsScopeIdx \cup DOMAIN configs |->
            LET pluginScopeIdx == IF pluginName \in DOMAIN nsScopeIdx
                                  THEN nsScopeIdx[pluginName] ELSE EmptyMap
            IN  IF pluginName \notin DOMAIN configs THEN pluginScopeIdx
                ELSE LET idx == Index(configs[pluginName])
                     IN  IF idx \in DOMAIN pluginScopeIdx
                         THEN pluginScopeIdx
                         ELSE (idx :> value) @@ pluginScopeIdx]

\* nsScopeIdx of one namespace, its Consumers ranged over in the given order.
RECURSIVE ScopeNs(_, _, _, _)
ScopeNs(hp, nsValue, order, nsScopeIdx) ==
    IF order = << >> THEN nsScopeIdx
    ELSE ScopeNs(hp, nsValue, Tail(order), ScopeInsert(hp, nsScopeIdx, nsValue[Head(order)]))

\* order is one order in which a range over a map with key set S can run.
IsOrderOf(order, S) ==
    /\ Len(order) = Cardinality(S)
    /\ {order[i] : i \in 1 .. Len(order)} = S

AllOrders == UNION {Perms(S) : S \in SUBSET AllNames}

\* The iteration orders the rebuild may take: one per namespace.
ScopeOrders(ri) ==
    {o \in [DOMAIN ri -> AllOrders] : \A ns \in DOMAIN ri : IsOrderOf(o[ns], DOMAIN ri[ns])}

\* The whole second loop: the scope index built from resource index ri.
ScopePhase(ri, hp, orders) ==
    [ns \in DOMAIN ri |-> ScopeNs(hp, ri[ns], orders[ns], EmptyMap)]

\* The addresses an index generation refers to.
Reachable(ri, si) ==
    {ri[ns][name] : <<ns, name>> \in {p \in Namespaces \X AllNames :
                        p[1] \in DOMAIN ri /\ p[2] \in DOMAIN ri[p[1]]}}
    \cup UNION {UNION {{si[ns][p][k] : k \in DOMAIN si[ns][p]} : p \in DOMAIN si[ns]} :
                    ns \in DOMAIN si}

\* The garbage collector: only referenced Consumers stay.
Collect(hp, live) == [a \in DOMAIN hp \cap live |-> hp[a]]

(***************************************************************************)
(* State                                                                   *)
(***************************************************************************)
Writers == {"w1"}

VARIABLES
    resourceIndex,  \* namespace -> (consumer name -> address)
    scopeIndex,     \* [nil, m]: m is namespace -> (plugin -> (key -> address))
    heap,           \* address -> Consumer, the live objects
    upd,            \* per writer: where its updateConsumers call stands
    call            \* the call that just completed: its arguments, its results
                    \* and the state it started in

vars == <<resourceIndex, scopeIndex, heap, upd, call>>

NoState == [resourceIndex |-> EmptyMap, scopeIndex |-> [nil |-> TRUE, m |-> EmptyMap],
            heap |-> EmptyMap]

\* A writer that is not inside updateConsumers.
IdleWriter ==
    [pc |-> "idle", value |-> EmptyMap, todo |-> {}, orders |-> EmptyMap, before |-> NoState]

NoCall ==
    [op |-> "none", value |-> EmptyMap, it |-> EmptyMap, orders |-> EmptyMap, again |-> FALSE,
     ns |-> "", pluginName |-> "", key |-> "", c |-> NilAddr, ok |-> FALSE,
     before |-> NoState, writers |-> [w \in Writers |-> IdleWriter]]

\* The state a call starts in.
Before == [resourceIndex |-> resourceIndex, scopeIndex |-> scopeIndex, heap |-> heap]

\* "resourceIndex = make(...)" and the nil scopeIndex of the var block.
Init ==
    /\ resourceIndex = EmptyMap
    /\ scopeIndex = [nil |-> TRUE, m |-> EmptyMap]
    /\ heap = EmptyMap
    /\ upd = [w \in Writers |-> IdleWriter]
    /\ call = NoCall

(***************************************************************************)
(* Operations                                                              *)
(***************************************************************************)
\* Publish for a scope index that is built when it is nil and kept from then
\* on.
Publish_BuiltOnce(r, si) ==
    [resourceIndex |-> r.ri,
     scopeIndex |-> IF scopeIndex.nil THEN [nil |-> FALSE, m |-> si] ELSE scopeIndex,
     heap |-> Collect(r.heap, Reachable(r.ri, IF scopeIndex.nil THEN si ELSE scopeIndex.m))]

\* The package state when the call returns: r is what the first loop left,
\* si the map the rebuild filled.
Publish(r, si) ==
    [resourceIndex |-> r.ri,
     scopeIndex |-> [nil |-> FALSE, m |-> si],
     heap |-> Collect(r.heap, Reachable(r.ri, si))]

\* Rebuild without "scopeIndex = make(...)" and "nsScopeIdx := make(...)":
\* the second loop stores into the maps of the previous generation.
Rebuild_NoReset(r, orders) ==
    Publish(r, [ns \in DOMAIN r.ri |->
                   ScopeNs(r.heap, r.ri[ns], orders[ns],
                           IF ns \in DOMAIN scopeIndex.m THEN scopeIndex.m[ns] ELSE EmptyMap)])

\* The second loop after the first has ended as r.
Rebuild(r, orders) == Publish(r, ScopePhase(r.ri, r.heap, orders))

\* What updateConsumers(value) leaves when it runs alone from resource
\* index ri and heap hp: the first loop, then the rebuild, which ranges over
\* the Consumers of each namespace in the given orders.
UpdateResult(ri, hp, value, orders) ==
    Rebuild(ResourcePhase(ri, hp, value, DOMAIN value), orders)

\* A whole updateConsumers(value) call, the map ranges of its InitConfigs
\* calls taking the orders it; again tells that it repeats the snapshot of
\* the call before it.
ApplyUpdate(value, it, again) ==
    /\ \A w \in Writers : upd[w].pc = "idle"
    /\ \A ns \in DOMAIN value : \A name \in DOMAIN value[ns] : CanAlloc(heap, ns, name)
    /\ \E r \in {ResourcePhase(resourceIndex, heap, Ranged(value, it), DOMAIN value)} :
           \E orders \in ScopeOrders(r.ri) :
               \E res \in {Rebuild(r, orders)} :
                   /\ resourceIndex' = res.resourceIndex
                   /\ scopeIndex' = res.scopeIndex
                   /\ heap' = res.heap
                   /\ call' = [NoCall EXCEPT !.op = "update", !.value = value, !.it = it,
                                             !.orders = orders, !.again = again,
                                             !.before = Before]
    /\ UNCHANGED upd

updateConsumers(value, it) ==
    /\ call.op = "none"
    /\ ApplyUpdate(value, it, FALSE)

\* The control plane pushes the snapshot of the last update once more.
updateConsumersAgain ==
    /\ call.op = "update"
    /\ ApplyUpdate(call.value, call.it, TRUE)

\* LookupResult with "return c, true" for the innermost map.
LookupResult_NoOk(si, ns, pluginName, key) ==
    IF ns \in DOMAIN si.m /\ pluginName \in DOMAIN si.m[ns]
    THEN [c |-> IF key \in DOMAIN si.m[ns][pluginName]
                THEN si.m[ns][pluginName][key] ELSE NilAddr,
          ok |-> TRUE]
    ELSE [c |-> NilAddr, ok |-> FALSE]

\* The result pair of LookupConsumer on scope index si.
LookupResult(si, ns, pluginName, key) ==
    IF ns \in DOMAIN si.m
    THEN LET nsIdx == si.m[ns]
         IN  IF pluginName \in DOMAIN nsIdx
             THEN LET pluginIdx == nsIdx[pluginName]
                  IN  IF key \in DOMAIN pluginIdx
                      THEN [c |-> pluginIdx[key], ok |-> TRUE]
                      ELSE [c |-> NilAddr, ok |-> FALSE]
             ELSE [c |-> NilAddr, ok |-> FALSE]
    ELSE [c |-> NilAddr, ok |-> FALSE]

\* LookupConsumer that creates the namespace's map when it misses it.
LookupConsumer_Vivify(ns, pluginName, key) ==
    /\ call.op = "none"
    /\ \E r \in {LookupResult(scopeIndex, ns, pluginName, key)} :
           call' = [NoCall EXCEPT !.op = "lookup", !.ns = ns, !.pluginName = pluginName,
                                  !.key = key, !.c = r.c, !.ok = r.ok,
                                  !.before = Before, !.writers = upd]
    /\ scopeIndex' = IF ns \in DOMAIN scopeIndex.m THEN scopeIndex
                     ELSE [nil |-> FALSE, m |-> (ns :> EmptyMap) @@ scopeIndex.m]
    /\ UNCHANGED <<resourceIndex, heap, upd>>

LookupConsumer(ns, pluginName, key) ==
    /\ call.op = "none"
    /\ \E r \in {LookupResult(scopeIndex, ns, pluginName, key)} :
           call' = [NoCall EXCEPT !.op = "lookup", !.ns = ns, !.pluginName = pluginName,
                                  !.key = key, !.c = r.c, !.ok = r.ok,
                                  !.before = Before, !.writers = upd]
    /\ UNCHANGED <<resourceIndex, scopeIndex, heap, upd>>

\* The caller is done with the results of the call.
Return ==
    /\ call.op \in {"update", "lookup"}
    /\ call' = NoCall
    /\ UNCHANGED <<resourceIndex, scopeIndex, heap, upd>>

Next ==
    \/ /\ call.op = "none"
       /\ \E run \in Runs : updateConsumers(run.value, run.it)
    \/ /\ call.op = "none"
       /\ \E ns \in Namespaces, pluginName \in ConsumerPlugins, key \in Keys :
              LookupConsumer(ns, pluginName, key)
    \/ Return

Spec == Init /\ [][Next]_vars

NextTwice ==
    \/ Next
    \/ updateConsumersAgain

\* Spec with every update possibly followed by a second push of its snapshot.
SpecTwice == Init /\ [][NextTwice]_vars

(***************************************************************************)
(* updateConsumers with every map range in an order of its own             *)
(***************************************************************************)
\* The snapshots pushed here: well-formed definitions and the one whose
\* second auth payload fails validation.
DetSnapshots ==
    {value \in Snapshots :
        \A e \in Entries(value) :
            value[e[1]][e[2]].d \in {Body(e[2], k) : k \in {"key", "hmac", "both", "partial"}}}

DetRuns == {run \in Runs : run.value \in DetSnapshots}

\* A whole updateConsumers(value) call: the range over the namespaces of
\* the snapshot takes the order nsOrder, the range over the consumers of a
\* namespace the order nameOrders gives it, the ranges of InitConfigs the
\* orders it, and the rebuild any order.
updateConsumersIn(value, it, nsOrder, nameOrders) ==
    /\ call.op = "none"
    /\ \A w \in Writers : upd[w].pc = "idle"
    /\ \A ns \in DOMAIN value : \A name \in DOMAIN value[ns] : CanAlloc(heap, ns, name)
    /\ \E r \in {NsLoopIn(resourceIndex, heap, Ranged(value, it), nsOrder, nameOrders)} :
           \E orders \in ScopeOrders(r.ri) :
               \E res \in {Rebuild(r, orders)} :
                   /\ resourceIndex' = res.resourceIndex
                   /\ scopeIndex' = res.scopeIndex
                   /\ heap' = res.heap
                   /\ call' = [NoCall EXCEPT !.op = "update", !.value = value, !.it = it,
                                             !.orders = orders, !.before = Before]
    /\ UNCHANGED upd

NextRuns ==
    \/ /\ call.op = "none"
       /\ \E run \in DetRuns :
              \E nsOrder \in Perms(DOMAIN run.value), nameOrders \in ScopeOrders(run.value) :
                  updateConsumersIn(run.value, run.it, nsOrder, nameOrders)
    \/ /\ call.op = "none"
       /\ \E ns \in Namespaces, pluginName \in ConsumerPlugins, key \in Keys :
              LookupConsumer(ns, pluginName, key)
    \/ Return

SpecRuns == Init /\ [][NextRuns]_vars

(***************************************************************************)
(* Marshal, Unmarshal and InitConfigs called on Consumers of any contents  *)
(***************************************************************************)
\* The most entries c.Auth and c.Filters have here.
MaxEntries == 2

PureNames == {"alice", "x<FF>"}

PurePayloads ==
    {GoodPayload, [syntax |-> "ok", key |-> ""], [syntax |-> "bad", key |-> ""],
     [syntax |-> "bad<FF>", key |-> ""]}

AuthMaps ==
    UNION {[S -> PurePayloads] : S \in {T \in SUBSET PluginNames : Cardinality(T) <= MaxEntries}}

FilterMaps ==
    UNION {[S -> {[Config |-> "ok"], [Config |-> "bad"]}] :
              S \in {T \in SUBSET {"limitReq", "keyAuth", "ghost"} : Cardinality(T) <= MaxEntries}}

\* The fields set in the data plane: as in a zero Consumer, or as in a
\* Consumer that updateConsumers has stored.
DataPlanes ==
    {[namespace |-> "", resourceVersion |-> "", ConsumerConfigs |-> EmptyMap,
      FilterConfigs |-> << >>],
     [namespace |-> "ns1", resourceVersion |-> "1",
      ConsumerConfigs |-> ("keyAuth" :> [key |-> "k2"]),
      FilterConfigs |-> <<[Name |-> "limitReq", ParsedConfig |-> "parsed",
                           ConfigFactory |-> "limitReq"]>>]}

\* The Consumers the functions are called on.
PureConsumers ==
    {[ConsumerName |-> n, Auth |-> a, Filters |-> f,
      namespace |-> d.namespace, resourceVersion |-> d.resourceVersion,
      ConsumerConfigs |-> d.ConsumerConfigs, FilterConfigs |-> d.FilterConfigs] :
        n \in PureNames, a \in AuthMaps, f \in FilterMaps, d \in DataPlanes}

\* No call: the record of a call with nothing in it.
NoPure ==
    [op |-> "none", c |-> ZeroConsumer, s |-> MalformedJson,
     u |-> [err |-> FALSE, c |-> ZeroConsumer], r |-> [err |-> "", c |-> ZeroConsumer],
     authOrder |-> << >>, filterOrder |-> << >>]

InitPure ==
    /\ resourceIndex = EmptyMap
    /\ scopeIndex = [nil |-> TRUE, m |-> EmptyMap]
    /\ heap = EmptyMap
    /\ upd = [w \in Writers |-> IdleWriter]
    /\ call = NoPure

\* s := c.Marshal()
MarshalCall(c) ==
    /\ call.op = "none"
    /\ call' = [NoPure EXCEPT !.op = "Marshal", !.c = c, !.s = Marshal(c)]
    /\ UNCHANGED <<resourceIndex, scopeIndex, heap, upd>>

\* "var d Consumer; err := d.Unmarshal(s)" on the text Marshal returned.
UnmarshalCall ==
    /\ call.op = "Marshal"
    /\ call' = [call EXCEPT !.op = "Unmarshal", !.u = Unmarshal(call.s)]
    /\ UNCHANGED <<resourceIndex, scopeIndex, heap, upd>>

\* err := c.InitConfigs(), its two map ranges running in the given orders.
InitConfigsCall(c, authOrder, filterOrder) ==
    /\ call.op = "none"
    /\ call' = [NoPure EXCEPT !.op = "InitConfigs", !.c = c,
                              !.r = InitConfigs(c, authOrder, filterOrder),
                              !.authOrder = authOrder, !.filterOrder = filterOrder]
    /\ UNCHANGED <<resourceIndex, scopeIndex, heap, upd>>

ReturnPure ==
    /\ call.op \in {"Unmarshal", "InitConfigs"}
    /\ call' = NoPure
    /\ UNCHANGED <<resourceIndex, scopeIndex, heap, upd>>

NextPure ==
    \/ /\ call.op = "none"
       /\ \E c \in PureConsumers : MarshalCall(c)
    \/ UnmarshalCall
    \/ /\ call.op = "none"
       /\ \E c \in PureConsumers :
              \E authOrder \in Perms(DOMAIN c.Auth), filterOrder \in Perms(DOMAIN c.Filters) :
                  InitConfigsCall(c, authOrder, filterOrder)
    \/ ReturnPure

SpecPure == InitPure /\ [][NextPure]_vars

(***************************************************************************)
(* updateConsumers step by step, with LookupConsumer calls of the request  *)
(* path running between its writes to the two package variables            *)
(***************************************************************************)
\* The entry is one that the inner loop stores when it parses it.
WellFormed(ns, entry) ==
    /\ ~Unmarshal(entry.d).err
    /\ InitOk([Unmarshal(entry.d).c EXCEPT !.namespace = ns])

\* The snapshots the writer pushes here: well-formed consumers, one version.
ConcSnapshots ==
    {value \in Snapshots :
        \A ns \in DOMAIN value : \A name \in DOMAIN value[ns] :
            value[ns][name].v = "1" /\ WellFormed(ns, value[ns][name])}

\* The snapshots with the orders of the map ranges the writer's run takes.
ConcRuns == {Ranged(run.value, run.it) : run \in {r \in Runs : r.value \in ConcSnapshots}}

\* The call is entered.
UpdateBegin(w, value) ==
    /\ call.op = "none"
    /\ upd[w].pc = "idle"
    /\ upd' = [upd EXCEPT ![w] = [pc |-> "resource", value |-> value, todo |-> DOMAIN value,
                                  orders |-> EmptyMap, before |-> Before]]
    /\ UNCHANGED <<resourceIndex, scopeIndex, heap, call>>

\* One iteration of the first loop, ending in "resourceIndex[ns] = newIdx".
UpdateStepNs(w, ns) ==
    /\ call.op = "none"
    /\ upd[w].pc = "resource"
    /\ ns \in upd[w].todo
    /\ \A name \in DOMAIN upd[w].value[ns] : CanAlloc(heap, ns, name)
    /\ \E r \in {UpdateNs(resourceIndex, heap, ns, upd[w].value[ns])} :
           /\ resourceIndex' = (ns :> r.newIdx) @@ resourceIndex
           /\ heap' = r.heap
    /\ upd' = [upd EXCEPT ![w].todo = @ \ {ns}]
    /\ UNCHANGED <<scopeIndex, call>>

\* "scopeIndex = make(...)": the package variable now names an empty map.
UpdateReset(w) ==
    /\ call.op = "none"
    /\ upd[w].pc = "resource"
    /\ upd[w].todo = {}
    /\ scopeIndex' = [nil |-> FALSE, m |-> EmptyMap]
    /\ upd' = [upd EXCEPT ![w].pc = "scope", ![w].todo = DOMAIN resourceIndex]
    /\ UNCHANGED <<resourceIndex, heap, call>>

\* UpdateScopeNs without "nsScopeIdx := make(...)": the iteration stores
\* into the namespace's map of the generation before, kept from the state
\* the call started in.
UpdateScopeNs_NoMake(w, ns, order) ==
    /\ call.op = "none"
    /\ upd[w].pc = "scope"
    /\ ns \in upd[w].todo
    /\ IsOrderOf(order, DOMAIN resourceIndex[ns])
    /\ scopeIndex' = [scopeIndex EXCEPT
                         !.m = (ns :> ScopeNs(heap, resourceIndex[ns], order,
                                              IF ns \in DOMAIN upd[w].before.scopeIndex.m
                                              THEN upd[w].before.scopeIndex.m[ns]
                                              ELSE EmptyMap)) @@ @]
    /\ upd' = [upd EXCEPT ![w].todo = @ \ {ns}, ![w].orders = (ns :> order) @@ @]
    /\ UNCHANGED <<resourceIndex, heap, call>>

\* One iteration of the second loop, ending in "scopeIndex[ns] = nsScopeIdx".
UpdateScopeNs(w, ns, order) ==
    /\ call.op = "none"
    /\ upd[w].pc = "scope"
    /\ ns \in upd[w].todo
    /\ IsOrderOf(order, DOMAIN resourceIndex[ns])
    /\ scopeIndex' = [scopeIndex EXCEPT
                         !.m = (ns :> ScopeNs(heap, resourceIndex[ns], order, EmptyMap)) @@ @]
    /\ upd' = [upd EXCEPT ![w].todo = @ \ {ns}, ![w].orders = (ns :> order) @@ @]
    /\ UNCHANGED <<resourceIndex, heap, call>>

\* The call returns; what no index refers to any more is garbage.
UpdateReturn(w) ==
    /\ call.op = "none"
    /\ upd[w].pc = "scope"
    /\ upd[w].todo = {}
    /\ heap' = Collect(heap, Reachable(resourceIndex, scopeIndex.m))
    /\ upd' = [upd EXCEPT ![w] = IdleWriter]
    /\ UNCHANGED <<resourceIndex, scopeIndex, call>>

\* A LookupConsumer that reads the map scopeIndex names while a writer is
\* storing into that map: a data race, which the Go runtime may end with
\* "fatal error: concurrent map read and map write".
LookupFatal(ns, pluginName, key) ==
    /\ call.op = "none"
    /\ \E w \in Writers : upd[w].pc = "scope" /\ upd[w].todo # {}
    /\ call' = [NoCall EXCEPT !.op = "fatal", !.ns = ns, !.pluginName = pluginName,
                              !.key = key, !.before = Before, !.writers = upd]
    /\ UNCHANGED <<resourceIndex, scopeIndex, heap, upd>>

NextConc ==
    \/ /\ call.op = "none"
       /\ \E w \in Writers, value \in ConcRuns : UpdateBegin(w, value)
    \/ \E w \in Writers, ns \in Namespaces : UpdateStepNs(w, ns)
    \/ \E w \in Writers : UpdateReset(w)
    \/ \E w \in Writers, ns \in Namespaces, order \in AllOrders : UpdateScopeNs(w, ns, order)
    \/ \E w \in Writers : UpdateReturn(w)
    \/ /\ call.op = "none"
       /\ \E ns \in Namespaces, pluginName \in ConsumerPlugins, key \in Keys :
              LookupConsumer(ns, pluginName, key)
    \/ /\ call.op = "none"
       /\ \E ns \in Namespaces, pluginName \in ConsumerPlugins, key \in Keys :
              LookupFatal(ns, pluginName, key)
    \/ Return

SpecConc == Init /\ [][NextConc]_vars

(***************************************************************************)
(* Two pushes of the control plane and the task that calls updateConsumers *)
(***************************************************************************)
\* The two pushes.
SyncCalls == {"u1", "u2"}

\* The snapshots pushed here: well-formed consumers, one version token per
\* snapshot.
SyncSnapshots ==
    {value \in Snapshots :
        \E v \in Versions :
            \A e \in Entries(value) :
                value[e[1]][e[2]].v = v /\ WellFormed(e[1], value[e[1]][e[2]])}

SyncRuns == {Ranged(run.value, run.it) : run \in {r \in Runs : r.value \in SyncSnapshots}}

InitSync ==
    /\ resourceIndex = EmptyMap
    /\ scopeIndex = [nil |-> TRUE, m |-> EmptyMap]
    /\ heap = EmptyMap
    /\ upd = [u \in SyncCalls |-> IdleWriter]
    /\ call = NoCall

\* The control plane pushes a snapshot: an update is issued.
Issue(u, value) ==
    /\ upd[u].pc = "idle"
    /\ upd' = [upd EXCEPT ![u] = [IdleWriter EXCEPT !.pc = "issued", !.value = value]]
    /\ UNCHANGED <<resourceIndex, scopeIndex, heap, call>>

\* The synchronization task calls updateConsumers for an issued update; it
\* is one task, and makes the next call when the one before has returned.
SyncStart(u) ==
    /\ upd[u].pc = "issued"
    /\ \A o \in SyncCalls : upd[o].pc \notin {"resource", "scope"}
    /\ upd' = [upd EXCEPT ![u].pc = "resource", ![u].todo = DOMAIN upd[u].value,
                          ![u].before = Before]
    /\ UNCHANGED <<resourceIndex, scopeIndex, heap, call>>

\* The call returns to the task.
SyncReturn(u) ==
    /\ upd[u].pc = "scope"
    /\ upd[u].todo = {}
    /\ heap' = Collect(heap, Reachable(resourceIndex, scopeIndex.m))
    /\ upd' = [upd EXCEPT ![u].pc = "done"]
    /\ UNCHANGED <<resourceIndex, scopeIndex, call>>

NextSync ==
    \/ \E u \in SyncCalls, value \in SyncRuns : Issue(u, value)
    \/ \E u \in SyncCalls : SyncStart(u)
    \/ \E u \in SyncCalls, ns \in Namespaces : UpdateStepNs(u, ns)
    \/ \E u \in SyncCalls : UpdateReset(u)
    \/ \E u \in SyncCalls, ns \in Namespaces, order \in AllOrders : UpdateScopeNs(u, ns, order)
    \/ \E u \in SyncCalls : SyncReturn(u)

SpecSync == InitSync /\ [][NextSync]_vars

(***************************************************************************)
(* Properties                                                              *)
(***************************************************************************)
\* The pair a call of LookupConsumer returned.
Returned == [c |-> call.c, ok |-> call.ok]

LookupArgs == Namespaces \X ConsumerPlugins \X Keys

\* The state is the one an updateConsumers call has just left.
Updated == call.op = "update"

\* C1: a LookupConsumer call that returns while a writer is inside
\* updateConsumers returns, for its (namespace, plugin, key), what the scope
\* index the writer started from gives or what the scope index of the
\* finished update gives.
C1_LookupDuringUpdateIsPreOrPost ==
    \A w \in Writers :
        (call.op = "lookup" /\ call.writers[w].pc # "idle") =>
            LET wr == call.writers[w]
                r  == ResourcePhase(wr.before.resourceIndex, wr.before.heap,
                                    wr.value, DOMAIN wr.value)
            IN  \/ Returned = LookupResult(wr.before.scopeIndex,
                                           call.ns, call.pluginName, call.key)
                \/ \E orders \in ScopeOrders(r.ri) :
                       Returned = LookupResult(
                           UpdateResult(wr.before.resourceIndex, wr.before.heap,
                                        wr.value, orders).scopeIndex,
                           call.ns, call.pluginName, call.key)

\* The state the last call started in.
Pre == call.before

HasEntry(idx, ns, name) == ns \in DOMAIN idx /\ name \in DOMAIN idx[ns]

\* The snapshot entry names a consumer the resource index held before the
\* update, with the version token it was stored under.
SameVersion(ns, name) ==
    /\ HasEntry(call.value, ns, name)
    /\ HasEntry(Pre.resourceIndex, ns, name)
    /\ Pre.heap[Pre.resourceIndex[ns][name]].resourceVersion = call.value[ns][name].v

\* C2: after an update, a consumer that was in the resource index and whose
\* snapshot entry carries the stored version token is the very same object,
\* with its contents as they were, whatever the entry's body is.
C2_VersionGatedReuse ==
    Updated =>
        \A e \in Entries(call.value) :
            SameVersion(e[1], e[2]) =>
                /\ HasEntry(resourceIndex, e[1], e[2])
                /\ resourceIndex[e[1]][e[2]] = Pre.resourceIndex[e[1]][e[2]]
                /\ heap[resourceIndex[e[1]][e[2]]] = Pre.heap[Pre.resourceIndex[e[1]][e[2]]]

\* An update has kept an object although its entry came with another body.
C2_Witness ==
    /\ Updated
    /\ \E e \in Entries(call.value) :
           /\ SameVersion(e[1], e[2])
           /\ HasEntry(resourceIndex, e[1], e[2])
           /\ resourceIndex[e[1]][e[2]] = Pre.resourceIndex[e[1]][e[2]]
           /\ Marshal(heap[resourceIndex[e[1]][e[2]]]) # call.value[e[1]][e[2]].d

\* The consumers of namespace ns that the snapshot of the update dropped.
Deleted(ns) ==
    IF ns \in DOMAIN call.value /\ ns \in DOMAIN Pre.resourceIndex
    THEN DOMAIN Pre.resourceIndex[ns] \ DOMAIN call.value[ns]
    ELSE {}

\* C3: a consumer name that was in a namespace and is missing from that
\* namespace in the snapshot is out of the resource index after the update,
\* and no lookup in that namespace returns its Consumer.
C3_Deletion ==
    Updated =>
        \A ns \in Namespaces : \A name \in Deleted(ns) :
            /\ ~HasEntry(resourceIndex, ns, name)
            /\ \A a \in LookupArgs :
                   a[1] = ns =>
                       LookupResult(scopeIndex, a[1], a[2], a[3]).c
                           # Pre.resourceIndex[ns][name]

\* An update has dropped a consumer that a lookup returned before it.
C3_Witness ==
    /\ Updated
    /\ \E ns \in Namespaces : \E name \in Deleted(ns) : \E a \in LookupArgs :
           /\ a[1] = ns
           /\ LookupResult(Pre.scopeIndex, a[1], a[2], a[3]).c = Pre.resourceIndex[ns][name]
           /\ ~HasEntry(resourceIndex, ns, name)

\* The positions, in the order the rebuild took, of the Consumers of ns
\* whose config for the plugin has the given index key.
Holders(ns, pluginName, key) ==
    {i \in 1 .. Len(call.orders[ns]) :
        LET c == heap[resourceIndex[ns][call.orders[ns][i]]]
        IN  /\ pluginName \in DOMAIN c.ConsumerConfigs
            /\ Index(c.ConsumerConfigs[pluginName]) = key}

Least(S) == CHOOSE i \in S : \A j \in S : i <= j

\* C5: after an update, a (namespace, plugin, key) that several Consumers
\* yield is bound to the one the rebuild processed first.
C5_FirstWriterWins ==
    Updated =>
        \A a \in LookupArgs :
            (a[1] \in DOMAIN resourceIndex /\ Holders(a[1], a[2], a[3]) # {}) =>
                LookupResult(scopeIndex, a[1], a[2], a[3])
                    = [c |-> resourceIndex[a[1]][call.orders[a[1]][Least(Holders(a[1], a[2], a[3]))]],
                       ok |-> TRUE]

\* An update has met two Consumers with one (plugin, key).
C5_Witness ==
    /\ Updated
    /\ \E a \in LookupArgs :
           /\ a[1] \in DOMAIN resourceIndex
           /\ Cardinality(Holders(a[1], a[2], a[3])) >= 2

\* C7: LookupConsumer returns (c, true) exactly when the scope index maps
\* namespace, plugin and key to c, and (nil, false) when one of the three
\* is absent, also on the scope index that was never built.
C7_LookupMatchesScopeIndex ==
    call.op = "lookup" =>
        LET present == /\ call.ns \in DOMAIN scopeIndex.m
                       /\ call.pluginName \in DOMAIN scopeIndex.m[call.ns]
                       /\ call.key \in DOMAIN scopeIndex.m[call.ns][call.pluginName]
        IN  /\ call.ok <=> present
            /\ present => call.c = scopeIndex.m[call.ns][call.pluginName][call.key]
            /\ ~present => call.c = NilAddr

\* A lookup has found a Consumer.
C7_Witness ==
    /\ call.op = "lookup"
    /\ call.ok
    /\ call.c \in DOMAIN heap

\* C8: LookupConsumer leaves the resource index, the scope index and every
\* Consumer object as they were, whether it finds a Consumer or not.
C8_LookupIsPureRead ==
    call.op = "lookup" =>
        /\ resourceIndex = Pre.resourceIndex
        /\ scopeIndex = Pre.scopeIndex
        /\ heap = Pre.heap

\* A lookup has missed in a namespace the scope index does not hold, while
\* the scope index holds another.
C8_Witness ==
    /\ call.op = "lookup"
    /\ ~call.ok
    /\ call.ns \notin DOMAIN scopeIndex.m
    /\ DOMAIN scopeIndex.m # {}

\* The namespaces of the resource index that the snapshot does not name.
Untouched == DOMAIN Pre.resourceIndex \ DOMAIN call.value

\* C9: an update leaves the resource index entry of a namespace that its
\* snapshot does not name as it was: the same names, the same objects.
C9_AbsentNamespaceUntouched ==
    Updated =>
        \A ns \in Untouched :
            /\ ns \in DOMAIN resourceIndex
            /\ resourceIndex[ns] = Pre.resourceIndex[ns]
            /\ \A name \in DOMAIN resourceIndex[ns] :
                   /\ resourceIndex[ns][name] \in DOMAIN heap
                   /\ heap[resourceIndex[ns][name]] = Pre.heap[resourceIndex[ns][name]]

\* An update whose snapshot names one namespace has left the consumers of
\* another in place.
C9_Witness ==
    /\ Updated
    /\ DOMAIN call.value # {}
    /\ \E ns \in Untouched : ns \in DOMAIN resourceIndex /\ DOMAIN resourceIndex[ns] # {}

\* The entry of the snapshot is parsed (its name is new or its version
\* differs from the stored one) and Unmarshal or InitConfigs fails on it.
Fails(ns, name) ==
    /\ HasEntry(call.value, ns, name)
    /\ \/ ~HasEntry(Pre.resourceIndex, ns, name)
       \/ Pre.heap[Pre.resourceIndex[ns][name]].resourceVersion # call.value[ns][name].v
    /\ ~WellFormed(ns, call.value[ns][name])

\* C10: an entry whose processing fails is left out of the new index of its
\* namespace, also when the index held an earlier version of it; every other
\* entry of the snapshot, in every namespace, is in the new index, under the
\* version token of the snapshot.
C10_ErrorContainment ==
    Updated =>
        \A ns \in DOMAIN call.value :
            /\ ns \in DOMAIN resourceIndex
            /\ DOMAIN resourceIndex[ns] = {name \in DOMAIN call.value[ns] : ~Fails(ns, name)}
            /\ \A name \in DOMAIN resourceIndex[ns] :
                   heap[resourceIndex[ns][name]].resourceVersion = call.value[ns][name].v

\* An update has dropped a consumer whose new version failed, and stored a
\* new Consumer in the same namespace and one in another.
C10_Witness ==
    /\ Updated
    /\ \E e \in Entries(call.value) :
           /\ Fails(e[1], e[2])
           /\ HasEntry(Pre.resourceIndex, e[1], e[2])
           /\ ~HasEntry(resourceIndex, e[1], e[2])
           /\ \E f \in Entries(resourceIndex) :
                  /\ f[1] = e[1]
                  /\ resourceIndex[f[1]][f[2]] \notin DOMAIN Pre.heap
           /\ \E f \in Entries(resourceIndex) :
                  /\ f[1] # e[1]
                  /\ resourceIndex[f[1]][f[2]] \notin DOMAIN Pre.heap

\* The entries of a snapshot that Unmarshal or InitConfigs rejects.
IllFormed(value) ==
    {e \in Entries(value) : ~WellFormed(e[1], value[e[1]][e[2]])}

\* The snapshot without entry e.
Without(value, e) ==
    [ns \in DOMAIN value |->
        [name \in DOMAIN value[ns] \ (IF ns = e[1] THEN {e[2]} ELSE {}) |-> value[ns][name]]]

\* The (plugin, key) pairs of the consumer definition in a snapshot entry.
OwnKeys(entry) ==
    LET Auth == Unmarshal(entry.d).c.Auth
    IN  {<<p, Index(ProtoUnmarshal(Auth[p]).conf)>> : p \in DOMAIN Auth}

\* The (plugin, key) pairs of the stored Consumer of a name.
StoredKeys(ns, name) ==
    LET configs == heap[resourceIndex[ns][name]].ConsumerConfigs
    IN  {<<p, Index(configs[p])>> : p \in DOMAIN configs}

\* The state an update from the state before the call reaches when entry e
\* is not in the snapshot.
AsIfWithout(e) ==
    UpdateResult(Pre.resourceIndex, Pre.heap, Ranged(Without(call.value, e), call.it),
                 call.orders)

\* C4 as stated: with one failing consumer and N well-formed ones in the
\* snapshot, the resource index holds exactly the N well-formed consumers
\* after the update, LookupConsumer returns each of them for each of its own
\* (plugin, key) pairs, and the state is the one reached without the failing
\* consumer in the snapshot.
C4_Original ==
    Updated =>
        \A e \in IllFormed(call.value) :
            IllFormed(call.value) = {e} =>
                /\ Entries(resourceIndex) = Entries(call.value) \ {e}
                /\ \A f \in Entries(call.value) \ {e} :
                       \A pk \in OwnKeys(call.value[f[1]][f[2]]) :
                           LookupResult(scopeIndex, f[1], pk[1], pk[2])
                               = [c |-> resourceIndex[f[1]][f[2]], ok |-> TRUE]
                /\ Before = AsIfWithout(e)

\* C4: with one consumer in the snapshot whose processing fails and N
\* well-formed ones, each namespace of the snapshot holds exactly its
\* well-formed consumers after the update, the state is the one reached
\* without the failing consumer in the snapshot, and LookupConsumer finds
\* each (plugin, key) of each stored Consumer, bound to that Consumer or to
\* another of its namespace with the same (plugin, key).
C4_PartialFailureIsolation ==
    Updated =>
        \A e \in IllFormed(call.value) :
            (IllFormed(call.value) = {e} /\ Fails(e[1], e[2])) =>
                /\ \A ns \in DOMAIN call.value :
                       /\ ns \in DOMAIN resourceIndex
                       /\ DOMAIN resourceIndex[ns]
                              = {f[2] : f \in {g \in Entries(call.value) \ {e} : g[1] = ns}}
                /\ Before = AsIfWithout(e)
                /\ \A f \in Entries(call.value) \ {e} :
                       \A pk \in StoredKeys(f[1], f[2]) :
                           LET r == LookupResult(scopeIndex, f[1], pk[1], pk[2])
                           IN  /\ r.ok
                               /\ \E name \in DOMAIN resourceIndex[f[1]] :
                                      /\ r.c = resourceIndex[f[1]][name]
                                      /\ pk \in StoredKeys(f[1], name)
                               /\ (\A name \in DOMAIN resourceIndex[f[1]] \ {f[2]} :
                                       pk \notin StoredKeys(f[1], name))
                                      => r.c = resourceIndex[f[1]][f[2]]

\* An update has dropped the one failing consumer of its snapshot and has
\* stored two new Consumers from the same snapshot.
C4_Witness ==
    /\ Updated
    /\ \E e \in IllFormed(call.value) :
           /\ IllFormed(call.value) = {e}
           /\ Fails(e[1], e[2])
           /\ Cardinality({f \in Entries(resourceIndex) :
                              /\ f \in Entries(call.value)
                              /\ resourceIndex[f[1]][f[2]] \notin DOMAIN Pre.heap}) >= 2

\* The (namespace, plugin, key) triples a scope index binds.
ScopeKeys(si) ==
    {a \in LookupArgs : LookupResult(si, a[1], a[2], a[3]).ok}

\* Two Consumers of one namespace yield the same (plugin, key).
Collision ==
    \E ns \in DOMAIN resourceIndex : \E n1, n2 \in DOMAIN resourceIndex[ns] :
        n1 # n2 /\ StoredKeys(ns, n1) \cap StoredKeys(ns, n2) # {}

\* C6 as stated: after the second application of a snapshot the resource
\* index, the scope index and the Consumer objects are those after the first.
C6_Original ==
    (Updated /\ call.again) =>
        /\ resourceIndex = Pre.resourceIndex
        /\ scopeIndex = Pre.scopeIndex
        /\ heap = Pre.heap

\* C6: after the second application of a snapshot the resource index holds
\* the same objects as after the first, unchanged, and the scope index binds
\* the same (namespace, plugin, key) triples; it binds them to the same
\* Consumers when no two Consumers of a namespace yield the same (plugin, key).
C6_IdempotentUpdate ==
    (Updated /\ call.again) =>
        /\ resourceIndex = Pre.resourceIndex
        /\ heap = Pre.heap
        /\ DOMAIN scopeIndex.m = DOMAIN Pre.scopeIndex.m
        /\ ScopeKeys(scopeIndex) = ScopeKeys(Pre.scopeIndex)
        /\ ~Collision => scopeIndex = Pre.scopeIndex

\* A snapshot has been applied twice and has left two Consumers in one
\* namespace that share no (plugin, key).
C6_Witness ==
    /\ Updated
    /\ call.again
    /\ ~Collision
    /\ \E ns \in DOMAIN resourceIndex : Cardinality(DOMAIN resourceIndex[ns]) >= 2
    /\ ScopeKeys(scopeIndex) # {}

(***************************************************************************)
(* Initialization of indexed Consumers                                     *)
(***************************************************************************)
\* The parsed configs of c are those of a successful InitConfigs: one auth
\* config per raw auth payload, parsed from it and valid, and one filter
\* config per raw filter payload.
FullyInitialized(c) ==
    /\ DOMAIN c.ConsumerConfigs = DOMAIN c.Auth
    /\ \A p \in DOMAIN c.Auth :
           /\ LoadConsumerPlugin(p)
           /\ ~ProtoUnmarshal(c.Auth[p]).err
           /\ c.ConsumerConfigs[p] = ProtoUnmarshal(c.Auth[p]).conf
           /\ Validate(c.ConsumerConfigs[p])
    /\ {c.FilterConfigs[i].Name : i \in DOMAIN c.FilterConfigs} = DOMAIN c.Filters
    /\ Len(c.FilterConfigs) = Cardinality(DOMAIN c.Filters)
    /\ \A i \in DOMAIN c.FilterConfigs :
           c.FilterConfigs[i].ParsedConfig = ParseFilter(c.Filters[c.FilterConfigs[i].Name]).conf
    /\ InitOk(c)

\* What InitConfigs left of snapshot entry e in the last update.
InitOf(e) ==
    InitConfigs([Unmarshal(call.value[e[1]][e[2]].d).c EXCEPT !.namespace = e[1]],
                call.it[e].auth, call.it[e].filters)

\* C11: every Consumer the resource index or the scope index refers to is
\* fully initialized: InitConfigs succeeded on it, its parsed auth configs
\* cover exactly the plugins of its raw auth payloads and its parsed filter
\* configs exactly the plugins of its raw filter payloads; a partially
\* initialized Consumer is in neither index.
C11_IndexedConsumersFullyInitialized ==
    \A a \in Reachable(resourceIndex, scopeIndex.m) :
        a \in DOMAIN heap /\ FullyInitialized(heap[a])

\* An update has dropped an entry whose InitConfigs failed after it had
\* parsed one auth config, and a Consumer of another name is indexed.
C11_Witness ==
    /\ Updated
    /\ \E e \in Entries(call.value) :
           /\ ~Unmarshal(call.value[e[1]][e[2]].d).err
           /\ InitOf(e).err # ""
           /\ InitOf(e).c.ConsumerConfigs # EmptyMap
           /\ ~HasEntry(resourceIndex, e[1], e[2])
    /\ \E a \in Reachable(resourceIndex, scopeIndex.m) :
           heap[a].ConsumerConfigs # EmptyMap
(***************************************************************************)
(* Scoping of keys                                                         *)
(***************************************************************************)
\* The Consumers of the resource index whose config for plugin a[2] has
\* index key a[3], in namespace a[1].
Yielders(a) ==
    IF a[1] \in DOMAIN resourceIndex
    THEN {resourceIndex[a[1]][name] : name \in
             {n \in DOMAIN resourceIndex[a[1]] :
                 /\ a[2] \in DOMAIN heap[resourceIndex[a[1]][n]].ConsumerConfigs
                 /\ Index(heap[resourceIndex[a[1]][n]].ConsumerConfigs[a[2]]) = a[3]}}
    ELSE {}

\* x and y name one literal key under two plugins of one namespace or
\* under one plugin in two namespaces.
SameKeyOtherScope(x, y) ==
    /\ x[3] = y[3]
    /\ \/ x[1] = y[1] /\ x[2] # y[2]
       \/ x[1] # y[1] /\ x[2] = y[2]

\* C12: keys are scoped per namespace and plugin: when Consumers yield the
\* same literal key under two plugins of one namespace, or under the same
\* plugin in two namespaces, the two do not collide; LookupConsumer returns
\* for each (namespace, plugin, key) a Consumer that yields that triple.
C12_KeysScopedPerNamespaceAndPlugin ==
    \A x \in LookupArgs, y \in LookupArgs :
        (SameKeyOtherScope(x, y) /\ Yielders(x) # {} /\ Yielders(y) # {}) =>
            /\ LookupResult(scopeIndex, x[1], x[2], x[3]).ok
            /\ LookupResult(scopeIndex, x[1], x[2], x[3]).c \in Yielders(x)
            /\ LookupResult(scopeIndex, y[1], y[2], y[3]).ok
            /\ LookupResult(scopeIndex, y[1], y[2], y[3]).c \in Yielders(y)

\* One key is held by three different Consumers: under two plugins of a
\* namespace and under one of these plugins in another namespace.
C12_Witness ==
    /\ Updated
    /\ \E x \in LookupArgs, y \in LookupArgs, z \in LookupArgs :
           /\ SameKeyOtherScope(x, y) /\ x[1] = y[1]
           /\ SameKeyOtherScope(x, z) /\ x[1] # z[1]
           /\ Cardinality(Yielders(x)) = 1
           /\ Cardinality(Yielders(y)) = 1
           /\ Cardinality(Yielders(z)) = 1
           /\ Cardinality(Yielders(x) \cup Yielders(y) \cup Yielders(z)) = 3
(***************************************************************************)
(* The scope index is derived from the resource index                      *)
(***************************************************************************)
\* The (namespace, plugin, key) triples that scope index si binds.
Bound(si) ==
    {a \in Namespaces \X PluginNames \X Keys :
        /\ a[1] \in DOMAIN si.m
        /\ a[2] \in DOMAIN si.m[a[1]]
        /\ a[3] \in DOMAIN si.m[a[1]][a[2]]}

\* C15: after every completed update the scope index is exactly what the
\* current resource index yields: it has the namespaces of the resource
\* index, every entry of it refers to a Consumer of the current resource
\* index that has this plugin and key in this namespace, every (namespace,
\* plugin, key) of a Consumer of the resource index is bound, and no entry
\* of an earlier generation survives.
C15_ScopeIndexDerivedFromResourceIndex ==
    Updated =>
        /\ ~scopeIndex.nil
        /\ DOMAIN scopeIndex.m = DOMAIN resourceIndex
        /\ \A ns \in DOMAIN scopeIndex.m :
               /\ DOMAIN scopeIndex.m[ns] \subseteq PluginNames
               /\ \A p \in DOMAIN scopeIndex.m[ns] :
                      /\ DOMAIN scopeIndex.m[ns][p] # {}
                      /\ DOMAIN scopeIndex.m[ns][p] \subseteq Keys
        /\ \A a \in Bound(scopeIndex) : scopeIndex.m[a[1]][a[2]][a[3]] \in Yielders(a)
        /\ \A a \in Namespaces \X PluginNames \X Keys :
               Yielders(a) # {} => a \in Bound(scopeIndex)

\* An update has removed the only Consumer of a (namespace, plugin, key)
\* that was bound before it, and has left other triples bound.
C15_Witness ==
    /\ Updated
    /\ Bound(scopeIndex) # {}
    /\ \E a \in Bound(Pre.scopeIndex) :
           /\ Yielders(a) = {}
           /\ a[1] \in DOMAIN resourceIndex
(***************************************************************************)
(* Version tokens                                                          *)
(***************************************************************************)
\* The entry names a consumer that is new to the resource index or stored
\* under another version token.
NewOrChanged(e) ==
    /\ HasEntry(call.value, e[1], e[2])
    /\ ~SameVersion(e[1], e[2])

\* C17: the version token is compared for equality only. After an update,
\* a well-formed snapshot entry whose name is new or whose token differs
\* from the stored one, in either direction, is in the resource index as
\* an object that did not exist before, built from the entry's body and
\* stamped with the entry's token; and every Consumer of a namespace of
\* the snapshot carries the token of its entry and the namespace it is
\* indexed under.
C17_VersionTokenEquality ==
    Updated =>
        /\ \A e \in Entries(call.value) :
               (NewOrChanged(e) /\ WellFormed(e[1], call.value[e[1]][e[2]])) =>
                   /\ HasEntry(resourceIndex, e[1], e[2])
                   /\ resourceIndex[e[1]][e[2]] \notin DOMAIN Pre.heap
                   /\ heap[resourceIndex[e[1]][e[2]]]
                          = [InitOf(e).c EXCEPT !.resourceVersion = call.value[e[1]][e[2]].v]
        /\ \A ns \in DOMAIN call.value :
               \A name \in DOMAIN resourceIndex[ns] :
                   /\ name \in DOMAIN call.value[ns]
                   /\ heap[resourceIndex[ns][name]].resourceVersion = call.value[ns][name].v
                   /\ heap[resourceIndex[ns][name]].namespace = ns

\* An update has replaced a Consumer stored under token "2" by one built
\* from an entry with token "1".
C17_Witness ==
    /\ Updated
    /\ \E e \in Entries(call.value) :
           /\ HasEntry(Pre.resourceIndex, e[1], e[2])
           /\ Pre.heap[Pre.resourceIndex[e[1]][e[2]]].resourceVersion = "2"
           /\ call.value[e[1]][e[2]].v = "1"
           /\ HasEntry(resourceIndex, e[1], e[2])
           /\ resourceIndex[e[1]][e[2]] # Pre.resourceIndex[e[1]][e[2]]
           /\ heap[resourceIndex[e[1]][e[2]]].resourceVersion = "1"
(***************************************************************************)
(* What a collision drops                                                  *)
(***************************************************************************)
\* The Consumer of the name lost (plugin, key) pair pk of its own to
\* another Consumer of its namespace.
LostPair(ns, name, pk) ==
    /\ pk \in StoredKeys(ns, name)
    /\ LookupResult(scopeIndex, ns, pk[1], pk[2]).c # resourceIndex[ns][name]

\* C18: a collision drops only the colliding scope index entry. After an
\* update, a Consumer that lost a (plugin, key) pair to another Consumer
\* of its namespace is still in the resource index, the pair it lost is
\* bound to another Consumer that yields it, and LookupConsumer returns the
\* loser for each of its pairs that no other Consumer of the namespace
\* yields.
C18_CollisionDropsOnlyCollidingEntry ==
    Updated =>
        /\ \A e \in Entries(call.value) :
               ~Fails(e[1], e[2]) => HasEntry(resourceIndex, e[1], e[2])
        /\ \A e \in Entries(resourceIndex) :
               \A lost \in StoredKeys(e[1], e[2]) :
                   LostPair(e[1], e[2], lost) =>
                       /\ LookupResult(scopeIndex, e[1], lost[1], lost[2]).ok
                       /\ LookupResult(scopeIndex, e[1], lost[1], lost[2]).c
                              \in Yielders(<<e[1], lost[1], lost[2]>>)
                       /\ \A pk \in StoredKeys(e[1], e[2]) :
                              Yielders(<<e[1], pk[1], pk[2]>>) = {resourceIndex[e[1]][e[2]]} =>
                                  LookupResult(scopeIndex, e[1], pk[1], pk[2])
                                      = [c |-> resourceIndex[e[1]][e[2]], ok |-> TRUE]

\* An update has stored a Consumer that lost one of its pairs and is the
\* only one to yield another.
C18_Witness ==
    /\ Updated
    /\ \E e \in Entries(call.value) :
           /\ HasEntry(resourceIndex, e[1], e[2])
           /\ \E lost \in StoredKeys(e[1], e[2]), pk \in StoredKeys(e[1], e[2]) :
                  /\ LostPair(e[1], e[2], lost)
                  /\ Yielders(<<e[1], pk[1], pk[2]>>) = {resourceIndex[e[1]][e[2]]}
                  /\ LookupResult(scopeIndex, e[1], pk[1], pk[2]).c = resourceIndex[e[1]][e[2]]
(***************************************************************************)
(* A collision resolves when the winner goes away                          *)
(***************************************************************************)
\* Before the last call, the consumers winner and loser of namespace a[1]
\* both yielded plugin a[2] with key a[3], and the scope index bound the
\* triple to winner.
Collided(a, winner, loser) ==
    /\ winner # loser
    /\ HasEntry(Pre.resourceIndex, a[1], winner)
    /\ HasEntry(Pre.resourceIndex, a[1], loser)
    /\ LookupResult(Pre.scopeIndex, a[1], a[2], a[3])
           = [c |-> Pre.resourceIndex[a[1]][winner], ok |-> TRUE]
    /\ a[2] \in DOMAIN Pre.heap[Pre.resourceIndex[a[1]][loser]].ConsumerConfigs
    /\ Index(Pre.heap[Pre.resourceIndex[a[1]][loser]].ConsumerConfigs[a[2]]) = a[3]

\* The snapshot of the last update removes winner from namespace ns and
\* carries loser with the version token it is stored under.
RemovesWinnerOnly(ns, winner, loser) ==
    /\ ns \in DOMAIN call.value
    /\ winner \notin DOMAIN call.value[ns]
    /\ SameVersion(ns, loser)

\* C19: when two Consumers of a namespace collided on a (plugin, key) and
\* the next update's snapshot removes the winner and keeps the loser
\* unchanged, then after that update LookupConsumer finds the triple bound
\* to a Consumer that yields it, and to the loser, the same object as
\* before, when no other Consumer of the namespace yields it.
C19_LoserTakesOverAfterWinnerRemoved ==
    Updated =>
        \A a \in LookupArgs : \A winner \in AllNames, loser \in AllNames :
            (Collided(a, winner, loser) /\ RemovesWinnerOnly(a[1], winner, loser)) =>
                /\ Pre.resourceIndex[a[1]][loser] \in Yielders(a)
                /\ LookupResult(scopeIndex, a[1], a[2], a[3]).ok
                /\ LookupResult(scopeIndex, a[1], a[2], a[3]).c \in Yielders(a)
                /\ Yielders(a) = {Pre.resourceIndex[a[1]][loser]} =>
                       LookupResult(scopeIndex, a[1], a[2], a[3])
                           = [c |-> Pre.resourceIndex[a[1]][loser], ok |-> TRUE]

\* An update has removed the winner of a collision and kept the loser, and
\* the loser is now the result for the triple.
C19_Witness ==
    /\ Updated
    /\ \E a \in LookupArgs : \E winner \in AllNames, loser \in AllNames :
           /\ Collided(a, winner, loser)
           /\ RemovesWinnerOnly(a[1], winner, loser)
           /\ LookupResult(scopeIndex, a[1], a[2], a[3]).c = Pre.resourceIndex[a[1]][loser]
           /\ LookupResult(Pre.scopeIndex, a[1], a[2], a[3]).c # Pre.resourceIndex[a[1]][loser]
(***************************************************************************)
(* Two runs of one update                                                  *)
(***************************************************************************)
\* Every rebuild after first loop result r leaves the current state.
SameAfter(r) ==
    \A orders \in ScopeOrders(r.ri) : Rebuild(r, orders) = Before

\* Consumers c and d differ at most in the order of their parsed filter
\* configs.
UpToFilterOrder(c, d) ==
    /\ [c EXCEPT !.FilterConfigs = << >>] = [d EXCEPT !.FilterConfigs = << >>]
    /\ Len(c.FilterConfigs) = Len(d.FilterConfigs)
    /\ {c.FilterConfigs[i] : i \in DOMAIN c.FilterConfigs}
           = {d.FilterConfigs[i] : i \in DOMAIN d.FilterConfigs}

\* res has the indexes of the current state, and Consumers that differ from
\* the current ones at most in the order of their parsed filter configs.
Similar(res) ==
    /\ res.resourceIndex = resourceIndex
    /\ res.scopeIndex = scopeIndex
    /\ DOMAIN res.heap = DOMAIN heap
    /\ \A a \in DOMAIN heap : UpToFilterOrder(res.heap[a], heap[a])

SimilarAfter(r) ==
    \A orders \in ScopeOrders(r.ri) : Similar(Rebuild(r, orders))

\* The first loop of another run of the last update: from the same state,
\* with the same snapshot, its ranges in the given orders.
OtherRun(it, nsOrder, nameOrders) ==
    NsLoopIn(Pre.resourceIndex, Pre.heap, Ranged(call.value, it), nsOrder, nameOrders)

\* C20 as stated: when no two Consumers of a namespace yield the same
\* (plugin, key) after an update, every other run of the update, from the
\* same state with the same snapshot and any iteration orders, leaves the
\* same resource index, scope index and Consumers.
C20_Original ==
    (Updated /\ ~Collision) =>
        \A it \in ItersOver(call.value, Entries(call.value)) :
            \A nsOrder \in Perms(DOMAIN call.value), nameOrders \in ScopeOrders(call.value) :
                SameAfter(OtherRun(it, nsOrder, nameOrders))

\* C20: when no two Consumers of a namespace yield the same (plugin, key)
\* after an update, every other run of the update, from the same state
\* with the same snapshot and any iteration orders, leaves the same
\* resource index and the same scope index, and Consumers that differ at
\* most in the order of their parsed filter configs.
C20_DeterminismUpToFilterOrder ==
    (Updated /\ ~Collision) =>
        \A it \in ItersOver(call.value, Entries(call.value)) :
            \A nsOrder \in Perms(DOMAIN call.value), nameOrders \in ScopeOrders(call.value) :
                SimilarAfter(OtherRun(it, nsOrder, nameOrders))

\* An update without collision has stored Consumers in two namespaces, and
\* another run of it leaves a Consumer with its filter configs in another
\* order.
C20_Witness ==
    /\ Updated
    /\ ~Collision
    /\ Cardinality(DOMAIN call.value) = 2
    /\ \A ns \in DOMAIN call.value : DOMAIN resourceIndex[ns] # {}
    /\ \E it \in ItersOver(call.value, Entries(call.value)) :
           \E nsOrder \in Perms(DOMAIN call.value), nameOrders \in ScopeOrders(call.value) :
               ~SameAfter(OtherRun(it, nsOrder, nameOrders))
(***************************************************************************)
(* Round trip                                                              *)
(***************************************************************************)
\* Every string of the persisted fields of c is valid UTF-8.
ValidConsumer(c) ==
    /\ c.ConsumerName \notin InvalidUTF8
    /\ \A p \in DOMAIN c.Auth : c.Auth[p].syntax \notin InvalidUTF8

\* c with the fields set in the data plane as in a zero Consumer.
Persisted(c) ==
    [ZeroConsumer EXCEPT !.ConsumerName = c.ConsumerName, !.Auth = c.Auth,
                         !.Filters = c.Filters]

AuthFailure(name, data) ==
    IF ~LoadConsumerPlugin(name) THEN "not for consumer"
    ELSE IF ProtoUnmarshal(data).err THEN "failed to unmarshal consumer config"
    ELSE IF ~Validate(ProtoUnmarshal(data).conf) THEN "failed to validate consumer config"
    ELSE ""

\* The error the filter loop returns at plugin name with config data.
FilterFailure(name, data) ==
    IF ~LoadHttpFilterConfigFactoryAndParser(name) THEN "not found"
    ELSE IF ParseFilter(data).err THEN "during parsing plugin"
    ELSE ""

\* The positions of the two iteration orders of the call at which the
\* entry does not initialize.
FailingAuth == {i \in DOMAIN call.authOrder :
                   AuthFailure(call.authOrder[i], call.c.Auth[call.authOrder[i]]) # ""}

FailingFilters == {i \in DOMAIN call.filterOrder :
                      FilterFailure(call.filterOrder[i],
                                    call.c.Filters[call.filterOrder[i]]) # ""}

\* C16: InitConfigs returns nil exactly when every auth entry and every
\* filter entry of the Consumer initializes. Otherwise it returns at the
\* first entry, in the order its ranges take, whose plugin is not a
\* consumer plugin, whose payload fails to parse or to validate, whose
\* filter plugin is not registered or whose filter config fails to parse:
\* with the error of that entry and with the parsed configs of the
\* entries before it only.
C16_InitConfigsAllOrNothing ==
    call.op = "InitConfigs" =>
        /\ call.r.err = "" <=> (FailingAuth = {} /\ FailingFilters = {})
        /\ FailingAuth # {} =>
               /\ call.r.err = AuthFailure(call.authOrder[Least(FailingAuth)],
                                           call.c.Auth[call.authOrder[Least(FailingAuth)]])
               /\ DOMAIN call.r.c.ConsumerConfigs
                      = {call.authOrder[i] : i \in 1 .. Least(FailingAuth) - 1}
               /\ call.r.c.FilterConfigs = call.c.FilterConfigs
        /\ (FailingAuth = {} /\ FailingFilters # {}) =>
               /\ call.r.err = FilterFailure(call.filterOrder[Least(FailingFilters)],
                                             call.c.Filters[call.filterOrder[Least(FailingFilters)]])
               /\ DOMAIN call.r.c.ConsumerConfigs = DOMAIN call.c.Auth
               /\ [i \in DOMAIN call.r.c.FilterConfigs |-> call.r.c.FilterConfigs[i].Name]
                      = SubSeq(call.filterOrder, 1, Least(FailingFilters) - 1)
        /\ (FailingAuth = {} /\ FailingFilters = {}) =>
               /\ DOMAIN call.r.c.ConsumerConfigs = DOMAIN call.c.Auth
               /\ [i \in DOMAIN call.r.c.FilterConfigs |-> call.r.c.FilterConfigs[i].Name]
                      = call.filterOrder

\* InitConfigs has parsed two auth entries and one filter entry and has
\* returned the error of the second filter entry.
C16_Witness ==
    /\ call.op = "InitConfigs"
    /\ call.r.err # ""
    /\ Cardinality(DOMAIN call.r.c.ConsumerConfigs) = 2
    /\ FailingFilters = {2}
    /\ Len(call.r.c.FilterConfigs) = 1
(***************************************************************************)
(* Updates are serialized                                                  *)
(***************************************************************************)
\* The calls that are inside updateConsumers.
Inside == {u \in SyncCalls : upd[u].pc \in {"resource", "scope"}}

\* The current state is one that updateConsumers(upd[b].value), run alone
\* from state s, leaves.
LeavesCurrent(s, b) ==
    \E orders \in ScopeOrders(ResourcePhase(s.resourceIndex, s.heap, upd[b].value,
                                            DOMAIN upd[b].value).ri) :
        UpdateResult(s.resourceIndex, s.heap, upd[b].value, orders) = Before

\* The current state is one that the update of a and then the update of b,
\* each run alone, leave from the initial state.
SerialOutcome(a, b) ==
    \E orders \in ScopeOrders(ResourcePhase(EmptyMap, EmptyMap, upd[a].value,
                                            DOMAIN upd[a].value).ri) :
        LeavesCurrent(UpdateResult(EmptyMap, EmptyMap, upd[a].value, orders), b)

====
